---- MODULE Spec2Model ----
(***************************************************************************)
(* Model of src/main.py: a top-to-bottom paired-sample analysis script.    *)
(* One run: load (or synthesize) the paired sample, derive the Difference  *)
(* column and the long-format view, run three statistical tests, draw a    *)
(* 2x2 figure, save and show it, print the summary.                        *)
(*                                                                         *)
(* Numbers.  Scores are fixed-point numbers in tenths (10.0 is 100), which *)
(* holds the fallback's scale of 3.5 exactly.  p-values are in millionths  *)
(* (0.05 is 50000) so that the 5-decimal print is a real rounding.  A cell *)
(* is [nan, v]: a float that may be NaN.                                   *)
(*                                                                         *)
(* Library calls (pandas, numpy, scipy, seaborn, matplotlib) are modelled  *)
(* by their documented effect on the script's variables; where a library   *)
(* outcome depends on the installed version or on the environment, every   *)
(* outcome is a nondeterministic choice.                                   *)
(***************************************************************************)
EXTENDS Integers, Sequences, FiniteSets, TLC

VARIABLES
    pc,             \* the statement about to run, "done" or "failed"
    failedAt,       \* the statement whose exception ended the run ("" if none)
    fileExists,     \* os.path.exists(file_path)
    rng,            \* state of numpy's global random generator
    data,           \* the loaded table (file path only)
    kangkong,       \* the paired sample frame
    kangkong_long,  \* the long-format view
    shapiro_p,      \* p-value of stats.shapiro
    t_p,            \* p-value of stats.ttest_rel
    wilcox_p,       \* p-value of stats.wilcoxon
    assigned,       \* how many times each script variable was bound
    fig,            \* panels drawn on the figure, in order
    imageSaved,     \* the PNG was written
    shown,          \* plt.show() returned
    out,            \* console output, one record per printed line
    runs,           \* observer: number of runs started so far
    entropy,        \* observer: the generator's key when this run started
    loaded,         \* observer: the table as pd.read_excel returned it
    synthSeen       \* observer: one entry per run that took the fallback

vars == <<pc, failedAt, fileExists, rng, data, kangkong, kangkong_long,
          shapiro_p, t_p, wilcox_p, assigned, fig, imageSaved, shown, out,
          runs, entropy, loaded, synthSeen>>

----------------------------------------------------------------------------
(* Bounds of the model *)

\* most rows of a generated input table
MaxRows == 3

\* keys the generator may hold when the interpreter starts (OS entropy)
EntropyStates == {3, 7}
----------------------------------------------------------------------------
(* Cells, series and frames *)

Num(x) == [nan |-> FALSE, v |-> x]

NaN == [nan |-> TRUE, v |-> 0]

Range(s) == {s[i] : i \in 1..Len(s)}

RECURSIVE SeqSum(_)
SeqSum(s) == IF s = <<>> THEN 0 ELSE Head(s) + SeqSum(Tail(s))

\* a frame: row labels, column names in order, and each column's cells
EmptyFrame == [index |-> <<>>, cols |-> <<>>, col |-> <<>>]

Frame(index, cols, col) == [index |-> index, cols |-> cols, col |-> col]

NRows(f) == Len(f.index)

HasColumn(f, name) == name \in Range(f.cols)

\* RangeIndex(n): labels 0..n-1
RangeIndex(n) == [i \in 1..n |-> i - 1]

\* the cells of column `name`, with the frame's row labels
Column(f, name) == [index |-> f.index, values |-> f.col[name]]

\* the cell a series holds for row label l (NaN when it has no such label)
ValueAt(s, l) ==
    IF \E i \in 1..Len(s.index) : s.index[i] = l
    THEN s.values[CHOOSE i \in 1..Len(s.index) : s.index[i] = l]
    ELSE NaN

\* float subtraction: NaN if either operand is NaN
CellSub(a, b) == IF a.nan \/ b.nan THEN NaN ELSE Num(a.v - b.v)

\* the rows (positions) of f, in order, that satisfy Keep
RowsWhere(f, Keep(_)) == SelectSeq([i \in 1..NRows(f) |-> i], Keep)

\* f restricted to the rows at positions pos, labels and order kept
TakeRows(f, pos) ==
    Frame([k \in 1..Len(pos) |-> f.index[pos[k]]],
          f.cols,
          [c \in DOMAIN f.col |-> [k \in 1..Len(pos) |-> f.col[c][pos[k]]]])

----------------------------------------------------------------------------
(* The input file: what pd.read_excel may return *)

AllColumns == <<"Math_Score", "English_Score", "Other">>

Tenths(x) == 10 * x

\* rows a generated table is built from: a gain, equal scores, one row for
\* each column that can be missing, and a loss
RowDomain ==
    { [Math_Score |-> Num(Tenths(10)), English_Score |-> Num(Tenths(12)), Other |-> Num(1)],
      [Math_Score |-> Num(Tenths(12)), English_Score |-> Num(Tenths(12)), Other |-> Num(1)],
      [Math_Score |-> NaN,             English_Score |-> Num(Tenths(12)), Other |-> Num(1)],
      [Math_Score |-> Num(Tenths(10)), English_Score |-> NaN,             Other |-> Num(1)],
      [Math_Score |-> Num(Tenths(10)), English_Score |-> Num(Tenths(12)), Other |-> NaN],
      [Math_Score |-> Num(Tenths(13)), English_Score |-> Num(Tenths(10)), Other |-> Num(1)] }

FrameOfRows(cols, rows) ==
    Frame(RangeIndex(Len(rows)), cols,
          [c \in Range(cols) |-> [i \in 1..Len(rows) |-> rows[i][c]]])

\* the column layouts a file may have: complete, or lacking a required column
ColumnLayouts ==
    { AllColumns, <<"Math_Score", "Other">>, <<"English_Score", "Other">> }

GeneratedTables ==
    { FrameOfRows(cols, rows) :
        cols \in ColumnLayouts,
        rows \in UNION { [1..n -> RowDomain] : n \in 0..MaxRows } }

\* the five-subject table of the spec's end-to-end scenario 2
ScenarioTable ==
    Frame(RangeIndex(5), <<"Math_Score", "English_Score">>,
          [Math_Score    |-> <<Num(Tenths(10)), Num(Tenths(12)), Num(Tenths(14)),
                               Num(Tenths(16)), Num(Tenths(18))>>,
           English_Score |-> <<Num(Tenths(12)), Num(Tenths(13)), Num(Tenths(17)),
                               Num(Tenths(15)), Num(Tenths(20))>>])

InputTables == GeneratedTables \cup {ScenarioTable}

----------------------------------------------------------------------------
(* pandas operations the script uses *)

\* DropNa with how='all': only rows missing every value are dropped
DropNaAll(f) ==
    TakeRows(f, RowsWhere(f, LAMBDA i : \E c \in DOMAIN f.col : ~f.col[c][i].nan))

\* data.dropna(): drop every row with a missing value in any column
DropNa(f) ==
    TakeRows(f, RowsWhere(f, LAMBDA i : \A c \in DOMAIN f.col : ~f.col[c][i].nan))

\* pd.DataFrame({'Before': a, 'After': b}) of two series: rows by label
PairFrame(a, b) ==
    Frame(a.index, <<"Before", "After">>,
          [Before |-> [i \in 1..Len(a.index) |-> ValueAt(a, a.index[i])],
           After  |-> [i \in 1..Len(a.index) |-> ValueAt(b, a.index[i])]])

\* SeriesSub with the operands swapped: Before - After
SeriesSubSwapped(a, b) ==
    [index  |-> a.index,
     values |-> [i \in 1..Len(a.index) |->
                    CellSub(ValueAt(b, a.index[i]), ValueAt(a, a.index[i]))]]

\* a - b on two series: subtraction row label by row label
SeriesSub(a, b) ==
    [index  |-> a.index,
     values |-> [i \in 1..Len(a.index) |->
                    CellSub(ValueAt(a, a.index[i]), ValueAt(b, a.index[i]))]]

\* WithColumn through an in-place subtraction: 'After' is overwritten too
WithColumnAliased(f, name, s) ==
    Frame(f.index,
          IF HasColumn(f, name) THEN f.cols ELSE Append(f.cols, name),
          [c \in DOMAIN f.col \cup {name} |->
              IF c \in {name, "After"}
              THEN [i \in 1..NRows(f) |-> ValueAt(s, f.index[i])]
              ELSE f.col[c]])

\* f[name] = s: set (or add as last column) column `name`, aligned by label
WithColumn(f, name, s) ==
    Frame(f.index,
          IF HasColumn(f, name) THEN f.cols ELSE Append(f.cols, name),
          [c \in DOMAIN f.col \cup {name} |->
              IF c = name THEN [i \in 1..NRows(f) |-> ValueAt(s, f.index[i])]
              ELSE f.col[c]])

\* Melt without value_vars: every column of the frame is unpivoted
MeltAllColumns(f, value_vars, var_name, value_name) ==
    LET n == NRows(f)
        k == n * Len(f.cols)
        VarOf(j) == f.cols[((j - 1) \div n) + 1]
        RowOf(j) == ((j - 1) % n) + 1
    IN Frame(RangeIndex(k), <<var_name, value_name>>,
             [c \in {var_name, value_name} |->
                 IF c = var_name THEN [j \in 1..k |-> VarOf(j)]
                 ELSE [j \in 1..k |-> f.col[VarOf(j)][RowOf(j)]]])

\* f.melt(value_vars, var_name, value_name): each value column in turn, its
\* cells in row order, under a fresh 0..k-1 index
Melt(f, value_vars, var_name, value_name) ==
    LET n == NRows(f)
        k == n * Len(value_vars)
        VarOf(j) == value_vars[((j - 1) \div n) + 1]
        RowOf(j) == ((j - 1) % n) + 1
    IN Frame(RangeIndex(k), <<var_name, value_name>>,
             [c \in {var_name, value_name} |->
                 IF c = var_name THEN [j \in 1..k |-> VarOf(j)]
                 ELSE [j \in 1..k |-> f.col[VarOf(j)][RowOf(j)]]])

\* Series.mean(): NaN cells skipped; the mean as a fraction, NaN if no cell
Mean(values) ==
    LET kept == SelectSeq(values, LAMBDA c : ~c.nan)
    IN IF kept = <<>> THEN [nan |-> TRUE, num |-> 0, den |-> 1]
       ELSE [nan |-> FALSE,
             num |-> SeqSum([i \in 1..Len(kept) |-> kept[i].v]),
             den |-> Len(kept)]

----------------------------------------------------------------------------
(* numpy's global generator *)

\* The generator is modelled as counter-based: a key, fixed by the seed (or
\* by OS entropy at start-up), and the number of values drawn since.

\* the state an unseeded interpreter starts with
Unseeded(e) == [key |-> e, drawn |-> 0]

\* SeedState with the seeding left out: the generator keeps its state
SeedStateIgnored(state, s) == state

\* np.random.seed(s): the state depends on s alone
SeedState(state, s) == [key |-> s, drawn |-> 0]

\* the state after k more draws
RngAfter(state, k) == [state EXCEPT !.drawn = @ + k]

\* the standard deviate a state yields, in whole units: -2..2
Deviate(state) ==
    (((state.key + 5 * state.drawn * (state.drawn + 1)) % 16) % 5) - 2

\* NormalSample with the scale argument dropped: every draw is loc
NormalSampleNoScale(state, loc, scale, size) ==
    [i \in 1..size |-> Num(loc)]

\* np.random.normal(loc, scale, size): `size` successive draws
NormalSample(state, loc, scale, size) ==
    [i \in 1..size |-> Num(loc + scale * Deviate(RngAfter(state, i)))]

----------------------------------------------------------------------------
(* scipy.stats and the plotting libraries *)

\* a library call's outcome: an exception, or a p-value (millionths, or NaN)
Raises == [raised |-> TRUE, p |-> NaN]

Returns(p) == [raised |-> FALSE, p |-> p]

AllEqual(x) == \A i, j \in 1..Len(x) : x[i] = x[j]

\* p-values (millionths) a test may return on a sample it accepts.  The
\* script branches on shapiro_p alone: just below, at and just above 0.05
\* (the last two print alike, as 0.05000).  It only prints the other two.
ShapiroPValues == {49999, 50000, 50004}

TTestPValues == {210}

WilcoxonPValues == {62500}

\* stats.shapiro(x): fewer than 3 values is an exception (older scipy) or a
\* NaN result with a warning (newer scipy)
ShapiroOutcomes(x) ==
    IF Len(x) < 3 THEN {Raises, Returns(NaN)}
    ELSE {Returns(Num(p)) : p \in ShapiroPValues}

\* stats.ttest_rel(a, b): never raises on equal lengths; NaN without degrees
\* of freedom or when every difference is 0, p = 0 on a constant difference
TTestOutcomes(a, b) ==
    LET d == [i \in 1..Len(a) |-> CellSub(a[i], b[i])]
    IN IF Len(d) < 2 \/ (AllEqual(d) /\ d[1].v = 0) THEN {Returns(NaN)}
       ELSE IF AllEqual(d) THEN {Returns(Num(0))}
       ELSE {Returns(Num(p)) : p \in TTestPValues}

\* stats.wilcoxon(a, b): zero differences are discarded; with none left it
\* raises (older scipy) or returns NaN with a warning (newer scipy)
WilcoxonOutcomes(a, b) ==
    LET d == [i \in 1..Len(a) |-> CellSub(a[i], b[i])]
    IN IF \A i \in 1..Len(d) : d[i].v = 0 THEN {Raises, Returns(NaN)}
       ELSE {Returns(Num(p)) : p \in WilcoxonPValues}

\* a sample on which a fit or a density estimate may be rejected
Degenerate(x) == Len(x) < 2 \/ AllEqual(x)

\* whether drawing a regression, box, histogram/KDE panel may raise / succeed
PanelOutcomes(x) == IF Degenerate(x) THEN {TRUE, FALSE} ELSE {TRUE}

\* panel D: stats.probplot draws nothing for an empty sample, and then
\* get_lines()[0] raises IndexError
ProbplotOutcomes(x) ==
    IF Len(x) = 0 THEN {FALSE} ELSE PanelOutcomes(x)

----------------------------------------------------------------------------
(* Formatting and the interpretation branch *)

\* n/d rounded to the nearest integer, ties to even (d > 0)
RoundDiv(n, d) ==
    LET q == n \div d
        r == n - q * d
    IN IF 2 * r < d THEN q
       ELSE IF 2 * r > d THEN q + 1
       ELSE IF q % 2 = 0 THEN q ELSE q + 1

\* f"{p:.5f}": a p-value in millionths, printed in hundred-thousandths
Format5f(p) == IF p.nan THEN NaN ELSE Num(RoundDiv(p.v, 10))

\* Format2f cutting the digits after the second decimal instead of rounding
Format2fTruncated(m) == IF m.nan THEN NaN ELSE Num((10 * m.num) \div m.den)

\* f"{m:.2f}": a mean of tenths, printed in hundredths
Format2f(m) == IF m.nan THEN NaN ELSE Num(RoundDiv(10 * m.num, m.den))

\* the threshold of line 143, in millionths
Alpha == 50000

\* Interpretation with >= in place of >
InterpretationInclusive(p) ==
    IF ~p.nan /\ p.v >= Alpha THEN "NORMAL" ELSE "NOT NORMAL"

\* if shapiro_p > 0.05: ... else: ...   (NaN > 0.05 is False)
Interpretation(p) ==
    IF ~p.nan /\ p.v > Alpha THEN "NORMAL" ELSE "NOT NORMAL"

Line(tag, val) == [tag |-> tag, val |-> val]

Text(tag) == Line(tag, NaN)

----------------------------------------------------------------------------
(* Control flow: the script's statements, top to bottom *)

Program ==
    << "exists", "read", "dropna", "print_loaded", "build",
       "seed", "synth", "warn",
       "difference", "melt", "shapiro", "ttest", "wilcoxon",
       "figure", "panelA", "panelB", "panelC", "panelD", "layout",
       "savefig", "print_saved", "show",
       "summary_header", "summary_normality", "summary_tests",
       "summary_descriptive" >>

Position(step) == CHOOSE i \in 1..Len(Program) : Program[i] = step

\* the statement that runs after `step` completes normally
Following(step) ==
    IF step = "build" THEN "difference"
    ELSE IF Position(step) = Len(Program) THEN "done"
    ELSE Program[Position(step) + 1]

\* Uncaught as if each statement sat in try/except: pass
CaughtAndSkipped(step) == Following(step)

\* where control goes when `step` raises: no try/except anywhere
Uncaught(step) == "failed"

Fail(step) ==
    /\ pc' = Uncaught(step)
    /\ failedAt' = IF Uncaught(step) = "failed" THEN step ELSE failedAt

Goto(step) == pc' = Following(step) /\ failedAt' = failedAt

Bind(name) == [assigned EXCEPT ![name] = @ + 1]

ScriptVariables ==
    {"data", "kangkong", "kangkong_long", "shapiro_p", "t_p", "wilcox_p"}
NoFigure == [created |-> FALSE, panels |-> <<>>, tight |-> FALSE]

Panel(name, points) == [name |-> name, points |-> points]

Init ==
    /\ pc = "exists"
    /\ failedAt = ""
    /\ fileExists \in BOOLEAN
    /\ rng \in {Unseeded(e) : e \in EntropyStates}
    /\ data = EmptyFrame
    /\ kangkong = EmptyFrame
    /\ kangkong_long = EmptyFrame
    /\ shapiro_p = NaN
    /\ t_p = NaN
    /\ wilcox_p = NaN
    /\ assigned = [n \in ScriptVariables |-> 0]
    /\ fig = NoFigure
    /\ imageSaved = FALSE
    /\ shown = FALSE
    /\ out = <<>>
    /\ runs = 1
    /\ entropy = rng.key
    /\ loaded = EmptyFrame
    /\ synthSeen = <<>>

results == <<shapiro_p, t_p, wilcox_p>>

frames == <<data, kangkong, kangkong_long>>

rendering == <<fig, imageSaved, shown>>

env == <<fileExists, runs, entropy, loaded>>

----------------------------------------------------------------------------
(* 1. Data loading and preparation *)

\* line 14: if os.path.exists(file_path)
CheckExists ==
    /\ pc = "exists"
    /\ pc' = IF fileExists THEN "read" ELSE "seed"
    /\ UNCHANGED <<failedAt, rng, frames, results, assigned, rendering, out,
                   env, synthSeen>>

\* line 15: data = pd.read_excel(file_path); an unreadable file raises
ReadExcel ==
    /\ pc = "read"
    /\ \/ /\ \E t \in InputTables : data' = t
          /\ loaded' = data'
          /\ assigned' = Bind("data")
          /\ Goto("read")
       \/ /\ Fail("read")
          /\ UNCHANGED <<data, loaded, assigned>>
    /\ UNCHANGED <<rng, kangkong, kangkong_long, results, rendering, out,
                   fileExists, runs, entropy, synthSeen>>

\* line 16: data.dropna(inplace=True)
DropNaInPlace ==
    /\ pc = "dropna"
    /\ data' = DropNa(data)
    /\ Goto("dropna")
    /\ UNCHANGED <<rng, kangkong, kangkong_long, results, assigned, rendering,
                   out, env, synthSeen>>

\* lines 17-19: the three informational prints
PrintLoaded ==
    /\ pc = "print_loaded"
    /\ out' = out \o << Text("SUCCESS: Data loaded"),
                        Line("Columns found", Num(Len(data.cols))),
                        Line("Data shape", Num(NRows(data))) >>
    /\ Goto("print_loaded")
    /\ UNCHANGED <<rng, frames, results, assigned, rendering, env, synthSeen>>

\* Lookup in the manner of data.get(name, empty): never a KeyError
LookupOrEmpty(f, name) ==
    IF HasColumn(f, name) THEN [found |-> TRUE, series |-> Column(f, name)]
    ELSE [found |-> TRUE, series |-> [index |-> <<>>, values |-> <<>>]]

\* data[name]: the column, or KeyError
Lookup(f, name) ==
    IF HasColumn(f, name) THEN [found |-> TRUE, series |-> Column(f, name)]
    ELSE [found |-> FALSE, series |-> [index |-> <<>>, values |-> <<>>]]

\* lines 22-25: kangkong = pd.DataFrame({'Before': data['Math_Score'],
\*                                       'After': data['English_Score']})
BuildKangkong ==
    /\ pc = "build"
    /\ LET before == Lookup(data, "Math_Score")
           after  == Lookup(data, "English_Score")
       IN IF before.found /\ after.found
          THEN /\ kangkong' = PairFrame(before.series, after.series)
               /\ assigned' = Bind("kangkong")
               /\ Goto("build")
          ELSE /\ Fail("build")
               /\ UNCHANGED <<kangkong, assigned>>
    /\ UNCHANGED <<rng, data, kangkong_long, results, rendering, out, env,
                   synthSeen>>

\* line 28: np.random.seed(42)
SeedRng ==
    /\ pc = "seed"
    /\ rng' = SeedState(rng, 42)
    /\ Goto("seed")
    /\ UNCHANGED <<frames, results, assigned, rendering, out, env, synthSeen>>

\* the two draws of the dict display, in evaluation order: 'Before' then 'After'
Synthesize(state) ==
    LET before == NormalSample(state, Tenths(15), Tenths(3), 30)
        after  == NormalSample(RngAfter(state, 30), Tenths(19), 35, 30)
    IN [frame |-> PairFrame([index |-> RangeIndex(Len(before)), values |-> before],
                            [index |-> RangeIndex(Len(after)), values |-> after]),
        state |-> RngAfter(state, 60)]

\* lines 29-32: kangkong = pd.DataFrame({'Before': normal(15, 3, 30),
\*                                       'After': normal(19, 3.5, 30)})
SynthKangkong ==
    /\ pc = "synth"
    /\ kangkong' = Synthesize(rng).frame
    /\ rng' = Synthesize(rng).state
    /\ assigned' = Bind("kangkong")
    /\ synthSeen' = Append(synthSeen, [entropy |-> entropy, frame |-> kangkong'])
    /\ Goto("synth")
    /\ UNCHANGED <<data, kangkong_long, results, rendering, out, env>>

\* line 33: the fallback warning
PrintWarning ==
    /\ pc = "warn"
    /\ out' = Append(out, Text("WARNING: File not found"))
    /\ Goto("warn")
    /\ UNCHANGED <<rng, frames, results, assigned, rendering, env, synthSeen>>

----------------------------------------------------------------------------
(* Transform *)

\* line 36: kangkong['Difference'] = kangkong['After'] - kangkong['Before']
CalcDifference ==
    /\ pc = "difference"
    /\ kangkong' = WithColumn(kangkong, "Difference",
                       SeriesSub(Column(kangkong, "After"),
                                 Column(kangkong, "Before")))
    /\ Goto("difference")
    /\ UNCHANGED <<rng, data, kangkong_long, results, assigned, rendering,
                   out, env, synthSeen>>

\* lines 39-43: kangkong_long = kangkong.melt(value_vars=['Before', 'After'],
\*                                            var_name='Time', value_name='Score')
MeltLong ==
    /\ pc = "melt"
    /\ kangkong_long' = Melt(kangkong, <<"Before", "After">>, "Time", "Score")
    /\ assigned' = Bind("kangkong_long")
    /\ Goto("melt")
    /\ UNCHANGED <<rng, data, kangkong, results, rendering, out, env,
                   synthSeen>>

----------------------------------------------------------------------------
(* 2. Statistical tests *)

\* line 49: shapiro_stat, shapiro_p = stats.shapiro(kangkong['Difference'])
Shapiro ==
    /\ pc = "shapiro"
    /\ \E o \in ShapiroOutcomes(kangkong.col["Difference"]) :
          IF o.raised
          THEN Fail("shapiro") /\ UNCHANGED <<shapiro_p, assigned>>
          ELSE /\ shapiro_p' = o.p
               /\ assigned' = Bind("shapiro_p")
               /\ Goto("shapiro")
    /\ UNCHANGED <<rng, frames, t_p, wilcox_p, rendering, out, env, synthSeen>>

\* line 52: t_stat, t_p = stats.ttest_rel(kangkong['After'], kangkong['Before'])
TTest ==
    /\ pc = "ttest"
    /\ \E o \in TTestOutcomes(kangkong.col["After"], kangkong.col["Before"]) :
          IF o.raised
          THEN Fail("ttest") /\ UNCHANGED <<t_p, assigned>>
          ELSE /\ t_p' = o.p
               /\ assigned' = Bind("t_p")
               /\ Goto("ttest")
    /\ UNCHANGED <<rng, frames, shapiro_p, wilcox_p, rendering, out, env,
                   synthSeen>>

\* line 55: wilcox_stat, wilcox_p = stats.wilcoxon(kangkong['After'],
\*                                                 kangkong['Before'])
Wilcoxon ==
    /\ pc = "wilcoxon"
    /\ \E o \in WilcoxonOutcomes(kangkong.col["After"], kangkong.col["Before"]) :
          IF o.raised
          THEN Fail("wilcoxon") /\ UNCHANGED <<wilcox_p, assigned>>
          ELSE /\ wilcox_p' = o.p
               /\ assigned' = Bind("wilcox_p")
               /\ Goto("wilcoxon")
    /\ UNCHANGED <<rng, frames, shapiro_p, t_p, rendering, out, env, synthSeen>>
----------------------------------------------------------------------------
(* 3. Plots *)

Draw(step, name, points) ==
    /\ fig' = [fig EXCEPT !.panels = Append(@, Panel(name, points))]
    /\ Goto(step)

\* lines 61-65: sns.set_theme, fig, axes = plt.subplots(2, 2), suptitle
CreateFigure ==
    /\ pc = "figure"
    /\ fig' = [fig EXCEPT !.created = TRUE]
    /\ Goto("figure")
    /\ UNCHANGED <<rng, frames, results, assigned, imageSaved, shown, out,
                   env, synthSeen>>

\* lines 69-83: regression scatter of Before against After, identity line
PanelA ==
    /\ pc = "panelA"
    /\ \E ok \in PanelOutcomes(kangkong.col["Difference"]) :
          IF ok THEN Draw("panelA", "A", Len(kangkong.col["Before"]))
          ELSE Fail("panelA") /\ UNCHANGED fig
    /\ UNCHANGED <<rng, frames, results, assigned, imageSaved, shown, out,
                   env, synthSeen>>

\* lines 88-99: box plot and strip plot of Score by Time
PanelB ==
    /\ pc = "panelB"
    /\ \E ok \in PanelOutcomes(kangkong.col["Difference"]) :
          IF ok THEN Draw("panelB", "B", Len(kangkong_long.col["Score"]))
          ELSE Fail("panelB") /\ UNCHANGED fig
    /\ UNCHANGED <<rng, frames, results, assigned, imageSaved, shown, out,
                   env, synthSeen>>

\* lines 103-111: histogram with KDE of Difference, zero line
PanelC ==
    /\ pc = "panelC"
    /\ \E ok \in PanelOutcomes(kangkong.col["Difference"]) :
          IF ok THEN Draw("panelC", "C", Len(kangkong.col["Difference"]))
          ELSE Fail("panelC") /\ UNCHANGED fig
    /\ UNCHANGED <<rng, frames, results, assigned, imageSaved, shown, out,
                   env, synthSeen>>

\* lines 116-121: QQ plot of Difference, marker restyled through get_lines()[0]
PanelD ==
    /\ pc = "panelD"
    /\ \E ok \in ProbplotOutcomes(kangkong.col["Difference"]) :
          IF ok THEN Draw("panelD", "D", Len(kangkong.col["Difference"]))
          ELSE Fail("panelD") /\ UNCHANGED fig
    /\ UNCHANGED <<rng, frames, results, assigned, imageSaved, shown, out,
                   env, synthSeen>>

\* line 124: plt.tight_layout(...)
TightLayout ==
    /\ pc = "layout"
    /\ fig' = [fig EXCEPT !.tight = TRUE]
    /\ Goto("layout")
    /\ UNCHANGED <<rng, frames, results, assigned, imageSaved, shown, out,
                   env, synthSeen>>

\* lines 127-128: plt.savefig(output_file, ...); the fixed output path may
\* not be writable (missing directory, permissions), and then it raises
SaveFig ==
    /\ pc = "savefig"
    /\ \E writable \in BOOLEAN :
          IF writable THEN imageSaved' = TRUE /\ Goto("savefig")
          ELSE Fail("savefig") /\ UNCHANGED imageSaved
    /\ UNCHANGED <<rng, frames, results, assigned, fig, shown, out, env,
                   synthSeen>>

\* line 129
PrintSaved ==
    /\ pc = "print_saved"
    /\ out' = Append(out, Text("Plot saved to"))
    /\ Goto("print_saved")
    /\ UNCHANGED <<rng, frames, results, assigned, rendering, env, synthSeen>>

\* line 132: plt.show() returns once the window is dismissed (or at once
\* without a display)
Show ==
    /\ pc = "show"
    /\ shown' = TRUE
    /\ Goto("show")
    /\ UNCHANGED <<rng, frames, results, assigned, fig, imageSaved, out, env,
                   synthSeen>>

----------------------------------------------------------------------------
(* 4. Summary *)

\* lines 137-139
SummaryHeader ==
    /\ pc = "summary_header"
    /\ out' = out \o <<Text("===="), Text("STATISTICAL SUMMARY"), Text("====")>>
    /\ Goto("summary_header")
    /\ UNCHANGED <<rng, frames, results, assigned, rendering, env, synthSeen>>

\* lines 141-146
SummaryNormality ==
    /\ pc = "summary_normality"
    /\ out' = out \o << Text("1. NORMALITY CHECK (Difference)"),
                        Line("Shapiro-Wilk p-value", Format5f(shapiro_p)),
                        Text(Interpretation(shapiro_p)) >>
    /\ Goto("summary_normality")
    /\ UNCHANGED <<rng, frames, results, assigned, rendering, env, synthSeen>>

\* lines 148-150
SummaryTests ==
    /\ pc = "summary_tests"
    /\ out' = out \o << Text("2. HYPOTHESIS TESTS"),
                        Line("Paired T-Test p-value", Format5f(t_p)),
                        Line("Wilcoxon Signed-Rank p-value", Format5f(wilcox_p)) >>
    /\ Goto("summary_tests")
    /\ UNCHANGED <<rng, frames, results, assigned, rendering, env, synthSeen>>

\* lines 152-154
SummaryDescriptive ==
    /\ pc = "summary_descriptive"
    /\ out' = out \o << Text("3. DESCRIPTIVE"),
                        Line("Mean Difference (Growth)",
                             Format2f(Mean(kangkong.col["Difference"]))),
                        Text("====") >>
    /\ Goto("summary_descriptive")
    /\ UNCHANGED <<rng, frames, results, assigned, rendering, env, synthSeen>>

----------------------------------------------------------------------------
(* Specifications *)

Next ==
    \/ CheckExists \/ ReadExcel \/ DropNaInPlace \/ PrintLoaded \/ BuildKangkong
    \/ SeedRng \/ SynthKangkong \/ PrintWarning
    \/ CalcDifference \/ MeltLong
    \/ Shapiro \/ TTest \/ Wilcoxon
    \/ CreateFigure \/ PanelA \/ PanelB \/ PanelC \/ PanelD \/ TightLayout
    \/ SaveFig \/ PrintSaved \/ Show
    \/ SummaryHeader \/ SummaryNormality \/ SummaryTests \/ SummaryDescriptive

\* one run of the script
Spec == Init /\ [][Next]_vars

\* the script is run a second time, in a fresh interpreter: nothing of the
\* first run survives but what the observer recorded (runs, synthSeen)
RunAgain ==
    /\ pc \in {"done", "failed"}
    /\ runs = 1
    /\ runs' = 2
    /\ pc' = "exists"
    /\ failedAt' = ""
    /\ fileExists' \in BOOLEAN
    /\ rng' \in {Unseeded(e) : e \in EntropyStates}
    /\ entropy' = rng'.key
    /\ loaded' = EmptyFrame
    /\ data' = EmptyFrame
    /\ kangkong' = EmptyFrame
    /\ kangkong_long' = EmptyFrame
    /\ shapiro_p' = NaN
    /\ t_p' = NaN
    /\ wilcox_p' = NaN
    /\ assigned' = [n \in ScriptVariables |-> 0]
    /\ fig' = NoFigure
    /\ imageSaved' = FALSE
    /\ shown' = FALSE
    /\ out' = <<>>
    /\ UNCHANGED synthSeen

\* two runs of the script, one after the other
SpecRuns == Init /\ [][Next \/ RunAgain]_vars
\* one run, every statement reached is eventually executed (the interpreter
\* does not stop by itself, and the user dismisses the plot window)
FairSpec == Spec /\ WF_vars(Next)

----------------------------------------------------------------------------
(* Vocabulary of the properties *)

Printed(tag) == \E i \in 1..Len(out) : out[i].tag = tag

ValuePrinted(tag) == out[CHOOSE i \in 1..Len(out) : out[i].tag = tag].val

TimesPrinted(tags) == Cardinality({i \in 1..Len(out) : out[i].tag \in tags})

SummaryTags ==
    { "====", "STATISTICAL SUMMARY", "1. NORMALITY CHECK (Difference)",
      "Shapiro-Wilk p-value", "NORMAL", "NOT NORMAL", "2. HYPOTHESIS TESTS",
      "Paired T-Test p-value", "Wilcoxon Signed-Rank p-value",
      "3. DESCRIPTIVE", "Mean Difference (Growth)" }

NoSummaryLine == TimesPrinted(SummaryTags) = 0

NoPlot == fig = NoFigure /\ ~imageSaved /\ ~shown

TestSteps == {"shapiro", "ttest", "wilcoxon"}

Past(step) == pc = "done" \/ (pc # "failed" /\ Position(pc) > Position(step))

Before == kangkong.col["Before"]

After == kangkong.col["After"]

Difference == kangkong.col["Difference"]

----------------------------------------------------------------------------
(* C1 *)

\* C1: on both paths, from the moment the Difference column exists and at
\* every later point of the run, Difference[i] == After[i] - Before[i] for
\* every row i (a comparison that a NaN on either side would make false).
C1_DifferenceIsAfterMinusBefore ==
    HasColumn(kangkong, "Difference") =>
        /\ Len(Difference) = NRows(kangkong)
        /\ \A i \in 1..NRows(kangkong) :
              /\ ~Difference[i].nan /\ ~After[i].nan /\ ~Before[i].nan
              /\ Difference[i].v = After[i].v - Before[i].v

\* a file-loaded run that dropped a row (labels with a gap) reached the end
\* with a non-zero difference
C1_Witness ==
    /\ pc = "done" /\ fileExists
    /\ HasColumn(kangkong, "Difference")
    /\ kangkong.index # RangeIndex(NRows(kangkong))
    /\ \E i \in 1..NRows(kangkong) : Difference[i].v # 0

----------------------------------------------------------------------------
(* C2 *)

\* C2: once melted, the long-format view of an N-row sample has exactly 2*N
\* rows and the two columns Time and Score; Time is 'Before' on the first N
\* rows and 'After' on the last N; Score is the N Before values in row order
\* followed by the N After values in row order; no Difference value is in
\* it although the frame already held the Difference column.
C2_LongFormatIsOrderedUnpivot ==
    assigned["kangkong_long"] > 0 =>
        LET n == NRows(kangkong)
            time == kangkong_long.col["Time"]
            score == kangkong_long.col["Score"]
        IN /\ HasColumn(kangkong, "Difference")
           /\ NRows(kangkong_long) = 2 * n
           /\ kangkong_long.cols = <<"Time", "Score">>
           /\ Len(time) = 2 * n /\ Len(score) = 2 * n
           /\ Range(time) \subseteq {"Before", "After"}
           /\ \A j \in 1..n : time[j] = "Before" /\ time[n + j] = "After"
           /\ score = Before \o After

\* a melted sample of several rows whose Before, After and Difference
\* columns all differ
C2_Witness ==
    /\ pc = "done"
    /\ NRows(kangkong) >= 2
    /\ NRows(kangkong_long) = 2 * NRows(kangkong)
    /\ Before # After /\ Difference # Before /\ Difference # After

----------------------------------------------------------------------------
(* C3 *)

\* C3: once the normality block of the summary is printed, exactly one
\* interpretation line is there, and it is 'NORMAL' iff the Shapiro-Wilk
\* p-value is strictly greater than 0.05 (50000 millionths), 'NOT NORMAL'
\* otherwise, p = 0.05 included; no interpretation line is printed before.
C3_InterpretationMatchesThreshold ==
    IF Past("summary_normality")
    THEN /\ TimesPrinted({"NORMAL", "NOT NORMAL"}) = 1
         /\ Printed("NORMAL") <=> (~shapiro_p.nan /\ shapiro_p.v > 50000)
         /\ Printed("NOT NORMAL") <=> ~(~shapiro_p.nan /\ shapiro_p.v > 50000)
    ELSE TimesPrinted({"NORMAL", "NOT NORMAL"}) = 0

\* the boundary: a run printed its verdict for p exactly 0.05
C3_Witness ==
    /\ pc = "done"
    /\ shapiro_p = Num(50000)
    /\ Printed("NOT NORMAL")
----------------------------------------------------------------------------
(* C4 *)

ThreePValuesPrinted ==
    \A tag \in {"Shapiro-Wilk p-value", "Paired T-Test p-value",
                "Wilcoxon Signed-Rank p-value"} :
        Printed(tag) /\ ~ValuePrinted(tag).nan

FallbackFacts ==
    ~fileExists =>
        /\ ~Printed("SUCCESS: Data loaded")
        /\ (Past("warn") \/ pc = "failed") =>
              /\ Printed("WARNING: File not found")
              /\ NRows(kangkong) = 30 /\ Len(Before) = 30 /\ Len(After) = 30
        /\ pc = "failed" => failedAt = "savefig"
        /\ ~NoSummaryLine => imageSaved
        /\ pc = "done" =>
              imageSaved /\ Printed("Plot saved to") /\ ThreePValuesPrinted

\* C4 as claimed: with the input file absent the run never ends in an error;
\* it prints the warning, has 30 rows and, at its end, has saved the image
\* and printed the three p-values.
C4_FallbackNeverFails ==
    ~fileExists =>
        /\ pc # "failed"
        /\ pc = "done" => imageSaved /\ ThreePValuesPrinted

\* C4 as amended: with the input file absent the run prints the fallback
\* warning and uses exactly 30 rows; the missing input is never an error;
\* unless plt.savefig fails to write the image (output path not writable)
\* the run completes, and a completed run has saved the image before
\* printing a summary that holds all three p-values.
C4_FallbackCompletesUnlessSaveFails ==
    /\ []FallbackFacts
    /\ (~fileExists) ~> (pc = "done" \/ (pc = "failed" /\ failedAt = "savefig"))

\* a fallback run that completed
C4_Witness ==
    /\ ~fileExists /\ pc = "done"
    /\ Printed("WARNING: File not found")
    /\ NRows(kangkong) = 30
    /\ imageSaved /\ ThreePValuesPrinted

----------------------------------------------------------------------------
(* C5 *)

LacksRequiredColumn(f) ==
    ~HasColumn(f, "Math_Score") \/ ~HasColumn(f, "English_Score")

\* C5: when the file exists and the table read from it lacks Math_Score or
\* English_Score, the run gets no further than building the paired sample,
\* where it fails; nothing is plotted, saved or shown, no summary line is
\* printed, and the fallback is not taken (no warning, no seeding, no
\* synthesized sample).
C5_MissingColumnIsFatal ==
    (fileExists /\ assigned["data"] > 0 /\ LacksRequiredColumn(loaded)) =>
        /\ pc \in {"dropna", "print_loaded", "build", "failed"}
        /\ pc = "failed" => failedAt = "build"
        /\ NoPlot /\ NoSummaryLine
        /\ kangkong = EmptyFrame /\ assigned["kangkong"] = 0
        /\ ~Printed("WARNING: File not found")
        /\ rng = Unseeded(entropy) /\ synthSeen = <<>>

\* a run that failed on a table with rows but without English_Score
C5_Witness ==
    /\ pc = "failed" /\ failedAt = "build"
    /\ NRows(data) >= 1
    /\ HasColumn(loaded, "Math_Score") /\ ~HasColumn(loaded, "English_Score")

----------------------------------------------------------------------------
(* C6 *)

ResultOf(step) ==
    CASE step = "shapiro" -> "shapiro_p"
      [] step = "ttest" -> "t_p"
      [] step = "wilcoxon" -> "wilcox_p"

\* C6: a test that raises ends the run at that test (nothing catches it):
\* no figure exists, no image is written, nothing is shown and no summary
\* line is printed; the run never gets past a test without that test's
\* result, so all three tests have run before the figure is created.
C6_TestFailureIsFatalBeforePlots ==
    /\ failedAt \in TestSteps =>
          pc = "failed" /\ NoPlot /\ NoSummaryLine /\ ~Printed("Plot saved to")
    /\ \A step \in TestSteps : Past(step) => assigned[ResultOf(step)] = 1
    /\ fig.created => \A step \in TestSteps : assigned[ResultOf(step)] = 1
    /\ ~fig.created => NoPlot /\ NoSummaryLine

\* the third test raised after the first two had returned
C6_Witness ==
    /\ pc = "failed" /\ failedAt = "wilcoxon"
    /\ assigned["shapiro_p"] = 1 /\ assigned["t_p"] = 1
    /\ NRows(kangkong) >= 3

----------------------------------------------------------------------------
(* C7 *)

CompleteRow(f, i) == \A c \in DOMAIN f.col : ~f.col[c][i].nan

\* C7: on the file-loaded path the paired sample is exactly the records of
\* the loaded table that have no missing value in any column: no Before or
\* After value is missing, every kept record keeps its own Math_Score and
\* English_Score as its Before/After pair, and the records are in the
\* table's order.
C7_PairedSampleHasNoMissingValues ==
    (fileExists /\ assigned["kangkong"] > 0) =>
        LET n == NRows(kangkong)
        IN /\ \A k \in 1..n : ~Before[k].nan /\ ~After[k].nan
           /\ {kangkong.index[k] : k \in 1..n}
                 = {i - 1 : i \in {r \in 1..NRows(loaded) : CompleteRow(loaded, r)}}
           /\ \A k, l \in 1..n : k < l => kangkong.index[k] < kangkong.index[l]
           /\ \A k \in 1..n :
                 /\ Before[k] = loaded.col["Math_Score"][kangkong.index[k] + 1]
                 /\ After[k] = loaded.col["English_Score"][kangkong.index[k] + 1]

\* a finished run whose table lost a record that only missed its third
\* column, and kept at least two records
C7_Witness ==
    /\ pc = "done" /\ fileExists
    /\ NRows(kangkong) >= 2
    /\ HasColumn(loaded, "Other")
    /\ \E i \in 1..NRows(loaded) :
          /\ loaded.col["Other"][i].nan
          /\ ~loaded.col["Math_Score"][i].nan
          /\ ~loaded.col["English_Score"][i].nan

----------------------------------------------------------------------------
(* C8 *)

\* C8: all runs that take the fallback synthesize the same dataset, whatever
\* state the generator started in: the generator is seeded with 42 right
\* before the draws, the 30 Before values are draws 1..30 and the 30 After
\* values draws 31..60 after the seed.
C8_FallbackIsReproducible ==
    /\ \A i, j \in 1..Len(synthSeen) : synthSeen[i].frame = synthSeen[j].frame
    /\ pc = "synth" => rng = [key |-> 42, drawn |-> 0]
    /\ \A i \in 1..Len(synthSeen) :
          LET f == synthSeen[i].frame
          IN /\ NRows(f) = 30
             /\ \A k \in 1..30 :
                   /\ f.col["Before"][k].v
                        = 150 + 30 * Deviate([key |-> 42, drawn |-> k])
                   /\ f.col["After"][k].v
                        = 190 + 35 * Deviate([key |-> 42, drawn |-> 30 + k])

\* two fallback runs that started from different generator states
C8_Witness ==
    /\ Len(synthSeen) = 2
    /\ synthSeen[1].entropy # synthSeen[2].entropy
    /\ pc = "done"

----------------------------------------------------------------------------
(* C9 *)

Abs(x) == IF x < 0 THEN -x ELSE x

\* sum of After[i] - Before[i] over the rows, in tenths
SumOfDifferences ==
    SeqSum([i \in 1..NRows(kangkong) |-> After[i].v - Before[i].v])

\* C9: the mean difference printed (hundredths) is the nearest 2-decimal
\* number to sum(After[i] - Before[i]) / N; on the scenario table the
\* Difference column is [2, 1, 3, -1, 2] and the printed mean is 1.40.
C9_PrintedMeanIsRoundedMean ==
    /\ Printed("Mean Difference (Growth)") =>
          LET m == ValuePrinted("Mean Difference (Growth)")
              n == NRows(kangkong)
          IN /\ n >= 1
             /\ ~m.nan
             /\ 2 * Abs(10 * SumOfDifferences - m.v * n) <= n
    /\ (loaded = ScenarioTable /\ HasColumn(kangkong, "Difference")) =>
          Difference = <<Num(20), Num(10), Num(30), Num(-10), Num(20)>>
    /\ (loaded = ScenarioTable /\ Printed("Mean Difference (Growth)")) =>
          ValuePrinted("Mean Difference (Growth)") = Num(140)

\* the scenario run printed its summary
C9_Witness ==
    /\ pc = "done"
    /\ loaded = ScenarioTable
    /\ Printed("Mean Difference (Growth)")

----------------------------------------------------------------------------
(* C10 *)

ResultNames == {"shapiro_p", "t_p", "wilcox_p"}

ResultValue(name) ==
    CASE name = "shapiro_p" -> shapiro_p
      [] name = "t_p" -> t_p
      [] name = "wilcox_p" -> wilcox_p

ResultValueNext(name) ==
    CASE name = "shapiro_p" -> shapiro_p'
      [] name = "t_p" -> t_p'
      [] name = "wilcox_p" -> wilcox_p'

CreatedStaysAsIs ==
    /\ assigned["kangkong"] > 0 =>
          /\ kangkong'.index = kangkong.index
          /\ kangkong'.col["Before"] = Before
          /\ kangkong'.col["After"] = After
          /\ assigned'["kangkong"] = assigned["kangkong"]
    /\ HasColumn(kangkong, "Difference") => kangkong' = kangkong
    /\ assigned["kangkong_long"] > 0 =>
          /\ kangkong_long' = kangkong_long
          /\ assigned'["kangkong_long"] = assigned["kangkong_long"]
    /\ \A r \in ResultNames :
          assigned[r] > 0 =>
              assigned'[r] = assigned[r] /\ ResultValueNext(r) = ResultValue(r)

\* C10: no step of a run changes the Before or After values once the paired
\* sample is bound, changes the frame once it holds Difference, changes the
\* long-format view once it is bound, or rebinds a test result; each of the
\* three results is bound at most once, and exactly once in a finished run.
C10_NoMutationAfterCreation ==
    /\ [][CreatedStaysAsIs]_vars
    /\ [](\A r \in ResultNames : assigned[r] <= 1)
    /\ [](pc = "done" => \A r \in ResultNames : assigned[r] = 1)

\* a finished file-loaded run with every entity bound
C10_Witness ==
    /\ pc = "done" /\ fileExists
    /\ NRows(kangkong) >= 2
    /\ HasColumn(kangkong, "Difference")
    /\ assigned["kangkong"] = 1 /\ assigned["kangkong_long"] = 1
    /\ \A r \in ResultNames : assigned[r] = 1

====
